---- MODULE Spec2Model ----
(***************************************************************************)
(* Model of the children's literacy-poster generator:                      *)
(*   - PromptGenerator / VocabularyGenerator (business module),            *)
(*   - ConversationManager (business module),                              *)
(*   - VocabularyApp (js/app.js) with InputComponent (components/dialog),  *)
(*   - KieAIClient / APIManager (js/modules/api.js).                       *)
(*                                                                         *)
(* Strings are sequences of characters.  TLA+ string literals are ASCII,   *)
(* so every Chinese character is written as one token holding its pinyin   *)
(* ("zhu" for the first character of the theme placeholder, and so on).    *)
(* Runs of template text that hold no brace and no dollar sign are single  *)
(* opaque tokens ("T0" .. "T9"): no pattern of generatePrompt can match    *)
(* inside them or across their border.                                     *)
(***************************************************************************)
EXTENDS Integers, Sequences, FiniteSets, TLC

VARIABLES
    cm,         \* the ConversationManager object: state, currentTheme, currentTitle, messages
    now,        \* the value Date.now() returns
    last,       \* the latest direct call (operation, input, object before, outcome): on the ConversationManager in Spec, the loadThemes of the page
    app,        \* VocabularyApp.state and what its components show
    dialog,     \* DialogComponent.messages
    igmThemes,  \* themes of the VocabularyGenerator owned by ImageGenerationManager.promptGenerator
    hasGlobalBC,\* whether the page defines a global named businessController
    jobs,       \* the VocabularyApp.generateImage calls that have not settled yet
    promptLog,  \* the generatePrompt invocations made by the handler that completed the session's latest (theme, title) pair
    genLog,     \* the latest completed (theme, title) pair of the session, and the path it came by
    sendLog,    \* the session's latest InputComponent.handleSend: what it was given and what came of it
    poll        \* one run of APIManager.generateImage, or of KieAIClient.pollUntilComplete alone, against the remote

vars == <<cm, now, last, app, dialog, igmThemes, hasGlobalBC, jobs, promptLog, genLog, sendLog, poll>>

(***************************************************************************)
(* Bounds of the model.                                                    *)
(***************************************************************************)
MaxMessages == 6
MaxClock == 1
MaxJobs == 1
MaxInFlight == 2
MaxDialog == 5
MaxAttempts == 3

\* null / undefined: a value no string equals
Null == <<"null">>
NoId == -1

(***************************************************************************)
(* String helpers (String.prototype.includes, String.prototype.replace).   *)
(***************************************************************************)
MatchAt(s, pat, i) ==
    /\ i + Len(pat) - 1 <= Len(s)
    /\ \A k \in 1..Len(pat) : s[i + k - 1] = pat[k]

\* s.includes(pat)
Includes(s, pat) == \E i \in 1..(Len(s) + 1) : MatchAt(s, pat, i)

RECURSIVE Expand(_, _, _, _, _)
\* GetSubstitution: the replacement string with its dollar patterns expanded.
\* The tokens "BACKTICK" and "QUOTE" are the backtick and the single quote.
\* There are no capture groups, so "$1".."$99" and "$<" stay as written.
Expand(repl, j, matched, before, after) ==
    IF j > Len(repl) THEN <<>>
    ELSE IF repl[j] = "$" /\ j < Len(repl) /\ repl[j + 1] \in {"$", "&", "BACKTICK", "QUOTE"}
         THEN (CASE repl[j + 1] = "$" -> <<"$">>
                 [] repl[j + 1] = "&" -> matched
                 [] repl[j + 1] = "BACKTICK" -> before
                 [] OTHER -> after)
              \o Expand(repl, j + 2, matched, before, after)
         ELSE <<repl[j]>> \o Expand(repl, j + 1, matched, before, after)

\* index of the first match of pat in s at or after i, 0 when there is none
NextMatch(s, pat, i) ==
    IF \E k \in i..Len(s) : MatchAt(s, pat, k)
    THEN CHOOSE k \in i..Len(s) :
            MatchAt(s, pat, k) /\ \A h \in i..(k - 1) : ~MatchAt(s, pat, h)
    ELSE 0

RECURSIVE ReplaceFrom(_, _, _, _)
\* the matches are taken from left to right in the string as it was before the
\* call, and the search goes on behind each match
ReplaceFrom(s, pat, repl, i) ==
    LET k == NextMatch(s, pat, i)
    IN IF k = 0 THEN SubSeq(s, i, Len(s))
       ELSE SubSeq(s, i, k - 1)
            \o Expand(repl, 1, pat, SubSeq(s, 1, k - 1), SubSeq(s, k + Len(pat), Len(s)))
            \o ReplaceFrom(s, pat, repl, k + Len(pat))

\* s.replace(/pat/g, repl) for a pattern that is a literal text.  The set
\* constructor only makes the model checker evaluate s and repl once.
ReplaceAll(s, pat, repl) ==
    CHOOSE r \in {ReplaceFrom(x, pat, y, 1) : x \in {s}, y \in {repl}} : TRUE

(***************************************************************************)
(* VocabularyGenerator.                                                    *)
(***************************************************************************)
Entry(p, c) == [pinyin |-> <<p>>, chinese |-> <<c>>]

\* the theme "supermarket" (chao shi) of the built-in default catalog
getDefaultThemes ==
    << [name |-> <<"chao", "shi">>,
        titles |-> << <<"zou", "jin", "chao", "shi">>, <<"kuai", "le", "gou", "wu">>,
                      <<"chao", "shi", "tan", "xian">> >>,
        vocabularies |->
            [characters |-> <<Entry("shou yin yuan", "ShouYinYuan"), Entry("gu ke", "GuKe")>>,
             items |-> <<Entry("ping guo", "PingGuo"), Entry("niu nai", "NiuNai")>>,
             facilities |-> <<Entry("huo jia", "HuoJia")>>,
             environment |-> <<Entry("zhao pai", "ZhaoPai")>>]] >>

\* A catalog resource ./data/themes.json, in insertion order: a theme "yard"
\* (yuan) that has characters only, a park (gong yuan), the supermarket with
\* its own entries, and a zoo (dong wu yuan) that has "animals" in place of
\* "items" and no facilities.
Catalog ==
    << [name |-> <<"yuan">>,
        titles |-> << <<"xiao", "yuan">> >>,
        vocabularies |->
            [characters |-> <<Entry("yuan zhang", "YuanZhang")>>]],
       [name |-> <<"gong", "yuan">>,
        titles |-> << <<"kuai", "le", "gong", "yuan">> >>,
        vocabularies |->
            [characters |-> <<Entry("yuan ding", "YuanDing")>>,
             items |-> <<Entry("hua", "Hua")>>,
             facilities |-> <<Entry("chang yi", "ChangYi")>>,
             environment |-> <<Entry("cao di", "CaoDi")>>]],
       [name |-> <<"chao", "shi">>,
        titles |-> << <<"zou", "jin", "chao", "shi">> >>,
        vocabularies |->
            [characters |-> <<Entry("shou yin yuan", "ShouYinYuan")>>,
             items |-> <<Entry("gou wu che", "GouWuChe")>>,
             facilities |-> <<Entry("huo jia", "HuoJia")>>,
             environment |-> <<Entry("chu kou", "ChuKou")>>]],
       [name |-> <<"dong", "wu", "yuan">>,
        titles |-> << <<"dong", "wu", "yuan", "li">> >>,
        vocabularies |->
            [characters |-> <<Entry("si yang yuan", "SiYangYuan")>>,
             animals |-> <<Entry("shi zi", "ShiZi"), Entry("da xiang", "DaXiang")>>,
             environment |-> <<Entry("shu", "Shu")>>]] >>

\* index of the first theme satisfying the test, 0 when there is none
FirstIndex(themes, Test(_)) ==
    IF \E i \in 1..Len(themes) : Test(themes[i])
    THEN CHOOSE i \in 1..Len(themes) :
            Test(themes[i]) /\ \A k \in 1..(i - 1) : ~Test(themes[k])
    ELSE 0

\* this.themes: null until loaded, then the catalog object
NullThemes == [loaded |-> FALSE, entries |-> <<>>]
Loaded(entries) == [loaded |-> TRUE, entries |-> entries]
\* the null a lookup returns: a theme record no catalog holds
NullTheme == [name |-> Null]

\* what the fetch of ./data/themes.json can give loadThemes: a JSON body with
\* a themes member, a throw inside the try (the fetch is rejected, or json()
\* cannot parse the body), or a JSON body without a themes member
WithThemes == <<"answered">>
Thrown == <<"thrown">>
NoMember == <<"no themes member">>

\* a loadThemes without the catch: the themes stay null and the error leaves
loadThemes_Propagates(answer) ==
    IF answer = WithThemes THEN [themes |-> Loaded(Catalog), error |-> "none"]
    ELSE IF answer = NoMember THEN [themes |-> NullThemes, error |-> "none"]
    ELSE [themes |-> NullThemes, error |-> "load failed"]

\* VocabularyGenerator.loadThemes: this.themes after the call and the error
\* that leaves it; data.themes of a body without the member is undefined,
\* which every reader treats as the null
loadThemes(answer) ==
    IF answer = WithThemes THEN [themes |-> Loaded(Catalog), error |-> "none"]
    ELSE IF answer = NoMember THEN [themes |-> NullThemes, error |-> "none"]
    ELSE [themes |-> Loaded(getDefaultThemes), error |-> "none"]

\* a lookup with one pass: the first theme that matches in either way
getThemeByName_OnePass(themes, themeName) ==
    IF ~themes.loaded THEN NullTheme
    ELSE LET Either(t) == \/ t.name = themeName
                          \/ Includes(t.name, themeName)
                          \/ Includes(themeName, t.name)
             f == FirstIndex(themes.entries, Either)
         IN IF f # 0 THEN themes.entries[f] ELSE NullTheme

getThemeByName(themes, themeName) ==
    IF ~themes.loaded THEN NullTheme
    ELSE LET Exact(t) == t.name = themeName
             Fuzzy(t) == Includes(t.name, themeName) \/ Includes(themeName, t.name)
             e == FirstIndex(themes.entries, Exact)
             f == FirstIndex(themes.entries, Fuzzy)
         IN IF e # 0 THEN themes.entries[e]
            ELSE IF f # 0 THEN themes.entries[f]
            ELSE NullTheme

generateDynamicVocabulary ==
    [characters |-> <<Entry("ren", "Ren"), Entry("hai zi", "HaiZi")>>,
     items |-> <<Entry("wu pin", "WuPin"), Entry("wan ju", "WanJu")>>,
     facilities |-> <<Entry("she shi", "SheShi")>>,
     environment |-> <<Entry("huan jing", "HuanJing")>>]

\* a fallback that has the four categories and nothing in them
generateVocabulary_EmptyFallback(themes, theme) ==
    LET themeData == getThemeByName(themes, theme)
    IN IF themeData # NullTheme THEN themeData.vocabularies
       ELSE [characters |-> <<>>, items |-> <<>>, facilities |-> <<>>, environment |-> <<>>]

generateVocabulary(themes, theme) ==
    LET themeData == getThemeByName(themes, theme)
    IN IF themeData # NullTheme THEN themeData.vocabularies ELSE generateDynamicVocabulary

(***************************************************************************)
(* PromptGenerator.                                                        *)
(***************************************************************************)
PhTheme == <<"{", "{", "zhu", "ti", "/", "chang", "jing", "}", "}">>
PhTitle == <<"{", "{", "biao", "ti", "}", "}">>
PhCharacters == <<"{", "{", "he", "xin", "jue", "se", "yu", "she", "shi", "}", "}">>
PhItems == <<"{", "{", "chang", "jian", "wu", "pin", "gong", "ju", "}", "}">>
PhEnvironment == <<"{", "{", "huan", "jing", "yu", "zhuang", "shi", "}", "}">>

\* the template text: T0..T9 are the runs of text between the placeholders
template ==
    <<"T0">> \o PhTheme \o <<"T1">> \o PhTitle \o <<"T2">> \o PhTheme \o <<"T3">> \o PhTheme
    \o <<"T4">> \o PhTheme \o <<"T5">> \o PhTheme \o <<"T6">> \o PhCharacters
    \o <<"T7">> \o PhItems \o <<"T8">> \o PhEnvironment \o <<"T9">>

RECURSIVE formatList(_)
\* each entry as "<pinyin> <chinese>", the entries joined by ", "
formatList(list) ==
    IF Len(list) = 0 THEN <<>>
    ELSE list[1].pinyin \o <<" ">> \o list[1].chinese
         \o (IF Len(list) = 1 THEN <<>> ELSE <<",", " ">> \o formatList(Tail(list)))

\* v.field || rest
OrElse(v, field, rest) == IF field \in DOMAIN v THEN v[field] ELSE rest

\* formatVocabularies without the animals alias
formatVocabularies_NoAnimals(vocabularies) ==
    [characters |-> formatList(OrElse(vocabularies, "characters", <<>>)),
     items |-> formatList(OrElse(vocabularies, "items", <<>>)),
     environment |-> formatList(OrElse(vocabularies, "facilities", <<>>)
                                \o OrElse(vocabularies, "environment", <<>>))]

formatVocabularies(vocabularies) ==
    [characters |-> formatList(OrElse(vocabularies, "characters", <<>>)),
     items |-> formatList(OrElse(vocabularies, "items", OrElse(vocabularies, "animals", <<>>))),
     environment |-> formatList(OrElse(vocabularies, "facilities", <<>>)
                                \o OrElse(vocabularies, "environment", <<>>))]

\* generatePrompt of a PromptGenerator whose VocabularyGenerator holds `themes`
generatePrompt(themes, theme, title) ==
    LET formattedVocabs == formatVocabularies(generateVocabulary(themes, theme))
        p1 == ReplaceAll(template, PhTheme, theme)
        p2 == ReplaceAll(p1, PhTitle, title)
        p3 == ReplaceAll(p2, PhCharacters, formattedVocabs.characters)
        p4 == ReplaceAll(p3, PhItems, formattedVocabs.items)
    IN ReplaceAll(p4, PhEnvironment, formattedVocabs.environment)

\* new VocabularyGenerator(): themes is null until the fetch that loadThemes
\* starts has answered, which takes at least one later task of the event loop
NewVocabularyGeneratorThemes == NullThemes

(***************************************************************************)
(* ConversationManager.  A message is [type, content, prompt, id]; the      *)
(* timestamp addMessage also stamps is a second reading of the same clock   *)
(* and no operation reads it, so it is left out.                            *)
(***************************************************************************)
AskTheme == <<"ASK_THEME">>          \* text of the question for a theme
AskTitle == <<"ASK_TITLE">>          \* text of the question for a title
PromptReady == <<"PROMPT_READY">>    \* text of the AI message that carries the prompt
InvalidState == "Invalid conversation state"

Message(type, content, prompt) ==
    [type |-> type, content |-> content, prompt |-> prompt, id |-> NoId]
NoMessage == Message("none", Null, Null)

\* what a call gives back: a thrown error, or the fields of the returned object
Outcome(error, state, message, prompt, theme, title, nextStep) ==
    [error |-> error, state |-> state, message |-> message, prompt |-> prompt,
     theme |-> theme, title |-> title, nextStep |-> nextStep]

\* the constructor
NewConversationManager ==
    [state |-> "IDLE", currentTheme |-> Null, currentTitle |-> Null, messages |-> <<>>]

\* addMessage when Date.now() reads t
addMessage(c, message, t) ==
    [c EXCEPT !.messages = Append(@, [message EXCEPT !.id = t])]

\* startConversation that forgets to empty the history
startConversation_KeepsHistory(c, t) ==
    LET c1 == [state |-> "ASKING_THEME", currentTheme |-> Null, currentTitle |-> Null,
               messages |-> c.messages]
        c2 == addMessage(c1, Message("system", AskTheme, Null), t)
    IN [cm |-> c2,
        ret |-> Outcome("none", c2.state, c2.messages[1], Null, Null, Null, "none"),
        prompts |-> <<>>]

startConversation(c, t) ==
    LET c1 == [state |-> "ASKING_THEME", currentTheme |-> Null, currentTitle |-> Null,
               messages |-> <<>>]
        c2 == addMessage(c1, Message("system", AskTheme, Null), t)
    IN [cm |-> c2,
        ret |-> Outcome("none", c2.state, c2.messages[1], Null, Null, Null, "none"),
        prompts |-> <<>>]

\* the theme case without the assignment of currentTheme
caseAskingTheme_DropsTheme(c1, input, t2) ==
    LET c2 == [c1 EXCEPT !.state = "ASKING_TITLE"]
        titleMessage == Message("system", AskTitle, Null)
        c3 == addMessage(c2, titleMessage, t2)
    IN [cm |-> c3,
        ret |-> Outcome("none", c3.state, titleMessage, Null, Null, Null, "title"),
        prompts |-> <<>>]

\* case 'ASKING_THEME' of handleUserInput; c1 already holds the user message
caseAskingTheme(c1, input, t2) ==
    LET c2 == [c1 EXCEPT !.currentTheme = input, !.state = "ASKING_TITLE"]
        titleMessage == Message("system", AskTitle, Null)
        c3 == addMessage(c2, titleMessage, t2)
    IN [cm |-> c3,
        ret |-> Outcome("none", c3.state, titleMessage, Null, Null, Null, "title"),
        prompts |-> <<>>]

\* case 'ASKING_TITLE' of handleUserInput: the prompt comes from a PromptGenerator
\* made for this call
caseAskingTitle(c1, input, t2) ==
    LET c2 == [c1 EXCEPT !.currentTitle = input, !.state = "GENERATING"]
        prompt == generatePrompt(NewVocabularyGeneratorThemes, c2.currentTheme, c2.currentTitle)
        promptMessage == Message("ai", PromptReady, prompt)
        c3 == addMessage(c2, promptMessage, t2)
    IN [cm |-> c3,
        ret |-> Outcome("none", c3.state, promptMessage, prompt,
                        c3.currentTheme, c3.currentTitle, "none"),
        prompts |-> << [by |-> "ConversationManager", theme |-> c2.currentTheme,
                        title |-> c2.currentTitle, prompt |-> prompt] >>]

\* a default case that tells the history about the rejection before it throws
caseDefault_AddsNotice(c1) ==
    [cm |-> addMessage(c1, Message("system", InvalidState, Null),
                       c1.messages[Len(c1.messages)].id),
     ret |-> Outcome(InvalidState, "none", NoMessage, Null, Null, Null, "none"),
     prompts |-> <<>>]

\* a default case that clears the pair before it throws
caseDefault_ForgetsPair(c1) ==
    [cm |-> [c1 EXCEPT !.currentTheme = Null, !.currentTitle = Null],
     ret |-> Outcome(InvalidState, "none", NoMessage, Null, Null, Null, "none"),
     prompts |-> <<>>]

\* a default case that falls back to IDLE before it throws
caseDefault_BackToIdle(c1) ==
    [cm |-> [c1 EXCEPT !.state = "IDLE"],
     ret |-> Outcome(InvalidState, "none", NoMessage, Null, Null, Null, "none"),
     prompts |-> <<>>]

\* the default case of handleUserInput
caseDefault(c1) ==
    [cm |-> c1,
     ret |-> Outcome(InvalidState, "none", NoMessage, Null, Null, Null, "none"),
     prompts |-> <<>>]

\* handleUserInput(input); t1 and t2 are the readings of Date.now() by its first
\* and its second addMessage.  The one await of the call is on a promise that is
\* already resolved, so no other task runs inside the call.
handleUserInput(c, input, t1, t2) ==
    LET c1 == addMessage(c, Message("user", input, Null), t1)
    IN CASE c1.state = "ASKING_THEME" -> caseAskingTheme(c1, input, t2)
         [] c1.state = "ASKING_TITLE" -> caseAskingTitle(c1, input, t2)
         [] OTHER -> caseDefault(c1)

\* reset that leaves the theme and the title behind
reset_KeepsPair(c) ==
    [state |-> "IDLE", currentTheme |-> c.currentTheme, currentTitle |-> c.currentTitle,
     messages |-> <<>>]

\* reset that leaves the history behind
reset_KeepsHistory(c) ==
    [state |-> "IDLE", currentTheme |-> Null, currentTitle |-> Null, messages |-> c.messages]

reset(c) ==
    [state |-> "IDLE", currentTheme |-> Null, currentTitle |-> Null, messages |-> <<>>]

\* the record kept of the latest call on the ConversationManager: the
\* operation, its argument, the object before the call, and what the call gave
Call(op, input, pre, ret) == [op |-> op, input |-> input, pre |-> pre, ret |-> ret]
NoOutcome == Outcome("none", "none", NoMessage, Null, Null, Null, "none")

(***************************************************************************)
(* ImageGenerationManager / BusinessController.createWithThemeAndTitle.     *)
(* A job is one generateImage call that has not settled: the prompt it      *)
(* built, and who awaits it.                                                *)
(***************************************************************************)
Job(theme, title, prompt, fromSend, key) ==
    [theme |-> theme, title |-> title, prompt |-> prompt, fromSend |-> fromSend, key |-> key]

\* ImageGenerationManager.generateImage up to its call of apiManager.generateImage:
\* the prompt it builds with its own, long-lived PromptGenerator
igmPrompt(themes, theme, title) ==
    [by |-> "ImageGenerationManager", theme |-> theme, title |-> title,
     prompt |-> generatePrompt(themes, theme, title)]

RemoveAt(seq, i) == SubSeq(seq, 1, i - 1) \o SubSeq(seq, i + 1, Len(seq))

(***************************************************************************)
(* Inputs.                                                                  *)
(***************************************************************************)
ChaoShi == <<"chao", "shi">>                    \* "supermarket"
ZouJinChaoShi == <<"zou", "jin", "chao", "shi">> \* "into the supermarket"
DollarAmp == <<"$", "&">>
Inputs == {ChaoShi, DollarAmp}

\* Date.now() read once more: the clock has moved on by d
Clock(d) == IF now + d <= MaxClock THEN now + d ELSE now

(***************************************************************************)
(* Spec: the business module driven through its exported objects, in any    *)
(* order of calls.  (BusinessController.startNewCreation is reset followed  *)
(* by startConversation.)  The catalog load belongs to AppSpec.             *)
(***************************************************************************)
NoApp ==
    [currentTheme |-> Null, currentTitle |-> Null, isGenerating |-> FALSE,
     selectorShown |-> FALSE, inputShown |-> FALSE, preview |-> "hidden",
     isProcessing |-> FALSE, apiKey |-> Null]
NoSend == [pending |-> Null, input |-> Null, afterPicker |-> Null, error |-> "none", started |-> <<>>]
NoPair == [path |-> "none", theme |-> Null, title |-> Null]

\* what a queryTask request comes back with: an error thrown, or the envelope
\* of a job in some state; failMsg is "" when the remote gives none; listed
\* tells whether resultJson holds a resultUrls list
Answer(kind, state, failMsg, listed, urls) ==
    [kind |-> kind, state |-> state, failMsg |-> failMsg, listed |-> listed, urls |-> urls]
NoAnswer == Answer("none", "none", "", FALSE, <<>>)

\* how a run ended: the message of the error thrown ("none" when it returned),
\* the URL APIManager.generateImage returned, the envelope pollUntilComplete returned
Result(error, url, envelope) == [error |-> error, url |-> url, envelope |-> envelope]
NoResult == Result("none", "", NoAnswer)

\* APIManager.settings as the constructor sets it
DefaultSettings == [resolution |-> "2K", format |-> "png", aspectRatio |-> "3:4"]
\* localStorage without an app_settings item, and no createTask payload yet
NoSaved == [resolution |-> "", format |-> ""]
NoPayload == [aspect_ratio |-> "", resolution |-> "", output_format |-> ""]

\* the input of the payload that createTask builds from its options; x || d
\* gives d for the empty string
payload(options) ==
    [aspect_ratio |-> IF options.aspectRatio = "" THEN "3:4" ELSE options.aspectRatio,
     resolution |-> IF options.resolution = "" THEN "2K" ELSE options.resolution,
     output_format |-> IF options.format = "" THEN "png" ELSE options.format]

\* APIManager.updateSettings as handleSettingsSave calls it: resolution and
\* format are spread over this.settings
updateSettings(settings, newSettings) ==
    [settings EXCEPT !.resolution = newSettings.resolution, !.format = newSettings.format]

\* a run against the remote before it starts; stored is the API key kept in
\* localStorage, client the key that APIManager.client was constructed with
\* (null: no client), bearer the key of the client whose pollUntilComplete is
\* running, carried the key in the Authorization header of the latest request,
\* settings is APIManager.settings, saved the app_settings item of
\* localStorage, payload the input of the latest createTask request
NoPoll ==
    [pc |-> "idle", via |-> "none", stored |-> Null, entered |-> FALSE,
     client |-> Null, bearer |-> Null, carried |-> Null,
     settings |-> DefaultSettings, saved |-> NoSaved, payload |-> NoPayload,
     maxAttempts |-> 0, attempts |-> 0, creates |-> 0, polls |-> 0, waits |-> 0,
     progress |-> <<>>, trace |-> <<>>, answer |-> NoAnswer, result |-> NoResult]

Init ==
    /\ cm = NewConversationManager
    /\ now = 0
    /\ last = Call("new", Null, NewConversationManager, NoOutcome)
    /\ app = NoApp
    /\ dialog = <<>>
    /\ igmThemes = NewVocabularyGeneratorThemes
    /\ hasGlobalBC = FALSE
    /\ jobs = <<>>
    /\ promptLog = <<>>
    /\ genLog = NoPair
    /\ sendLog = NoSend
    /\ poll = NoPoll

StartConversation ==
    \E d \in {0, 1} :
    \E r \in {startConversation(cm, Clock(d))} :
       /\ cm' = r.cm
       /\ now' = Clock(d)
       /\ last' = Call("startConversation", Null, cm, r.ret)
       /\ UNCHANGED <<app, dialog, igmThemes, hasGlobalBC, jobs, promptLog, genLog,
                      sendLog, poll>>

HandleUserInput ==
    \E input \in Inputs, d1 \in {0, 1}, d2 \in {0, 1} :
    \E t1 \in {Clock(d1)} :
    \E t2 \in {IF t1 + d2 <= MaxClock THEN t1 + d2 ELSE t1} :
    \E r \in {handleUserInput(cm, input, t1, t2)} :
       /\ Len(r.cm.messages) <= MaxMessages
       /\ cm' = r.cm
       /\ now' = r.cm.messages[Len(r.cm.messages)].id
       /\ last' = Call("handleUserInput", input, cm, r.ret)
       /\ UNCHANGED <<app, dialog, igmThemes, hasGlobalBC, jobs, promptLog, genLog,
                      sendLog, poll>>

Reset ==
    /\ cm' = reset(cm)
    /\ last' = Call("reset", Null, cm, NoOutcome)
    /\ UNCHANGED <<now, app, dialog, igmThemes, hasGlobalBC, jobs, promptLog, genLog,
                   sendLog, poll>>

\* BusinessController.createWithThemeAndTitle(theme, title): the call runs up to
\* the request of the remote job
CreateWithThemeAndTitle ==
    \E theme \in {ChaoShi}, title \in {ZouJinChaoShi} :
    \E g \in {igmPrompt(igmThemes, theme, title)} :
       /\ Len(jobs) < MaxJobs
       /\ jobs' = Append(jobs, Job(theme, title, g.prompt, FALSE, Null))
       /\ UNCHANGED <<cm, now, last, app, dialog, igmThemes, hasGlobalBC, promptLog,
                      genLog, sendLog, poll>>

\* the remote job of a createWithThemeAndTitle call ends, by an image or by an
\* error: the call settles
JobSettles ==
    \E j \in 1..Len(jobs) :
       /\ jobs' = RemoveAt(jobs, j)
       /\ UNCHANGED <<cm, now, last, app, dialog, igmThemes, hasGlobalBC, promptLog,
                      genLog, sendLog, poll>>

Next ==
    \/ StartConversation
    \/ HandleUserInput
    \/ Reset
    \/ CreateWithThemeAndTitle
    \/ JobSettles

Spec == Init /\ [][Next]_vars

(***************************************************************************)
(* AppSpec: the page.  VocabularyApp is driven by what the user can click:  *)
(* the theme picker while it is displayed, the send button while the input  *)
(* area is displayed, the buttons of the preview section while that section *)
(* is displayed, and the settings dialog at any time.  A handler runs up to *)
(* the point where it waits for the remote job; the job's progress and end  *)
(* are steps of their own.  No handler of the page reads a message id, so   *)
(* the clock stands still here: every Date.now() reads `now` (the ids are   *)
(* the matter of Spec).                                                     *)
(***************************************************************************)
Welcome == <<"WELCOME">>                \* text of the welcome message
ApiKeyHint == <<"API_KEY_HINT">>        \* text of the reminder that no API key is configured
PickedBoth == <<"PICKED_THEME_AND_TITLE">>
PickedGenerating == <<"PICKED_GENERATING">>
PickedTheme == <<"PICKED_THEME">>
AskTitleOfPicker == <<"ASK_TITLE_OF_PICKER">>
CustomGenerating == <<"CUSTOM_GENERATING">>
GenerateSucceeded == <<"GENERATE_SUCCEEDED">>
ConfigurationMissing == "API Key missing"
RemoteFailure == "remote failure"
HandleFailed(error) == <<"HANDLE_FAILED", error>>       \* the prefix and error.message
GenerateFailed(error) == <<"GENERATE_FAILED", error>>   \* the prefix and error.message
Custom == <<"zi", "ding", "yi">>                        \* the stand-in theme
K1 == <<"k1">>                                            \* an API key
K2 == <<"k2">>                                            \* another API key

Pair(path, theme, title) == [path |-> path, theme |-> theme, title |-> title]

\* what the user types into the input area: the name of a catalog theme, which
\* serves as a title as well (the texts with dollar patterns are inputs of Spec)
PageInputs == {ChaoShi}

\* the state of the page that VocabularyApp.generateImage reads and writes
Page(a, d, js, pl) == [app |-> a, dialog |-> d, jobs |-> js, promptLog |-> pl, started |-> <<>>]

\* a generateImage whose failure path has no finally and does not show the input
generateImage_NoFinally(g, themes, theme, title, fromSend) ==
    IF g.app.isGenerating
    THEN g
    ELSE LET made == igmPrompt(themes, theme, title)
             pl == Append(g.promptLog, made)
         IN IF g.app.apiKey = Null
            THEN [g EXCEPT !.promptLog = pl,
                           !.app = [@ EXCEPT !.preview = "error", !.isGenerating = TRUE],
                           !.dialog = Append(@, Message("system", GenerateFailed(ConfigurationMissing), Null))]
            ELSE [g EXCEPT !.promptLog = pl,
                           !.app = [@ EXCEPT !.isGenerating = TRUE],
                           !.jobs = Append(@, Job(theme, title, made.prompt, fromSend, g.app.apiKey)),
                           !.started = Append(@, <<theme, title>>)]

\* VocabularyApp.generateImage(theme, title) up to its await: either it returns
\* at once (a generation is running), or it fails at once (no API key: the
\* catch and the finally run), or a job is now in flight
generateImage(g, themes, theme, title, fromSend) ==
    IF g.app.isGenerating
    THEN g
    ELSE LET made == igmPrompt(themes, theme, title)
             pl == Append(g.promptLog, made)
         IN IF g.app.apiKey = Null
            THEN [g EXCEPT !.promptLog = pl,
                           !.app = [@ EXCEPT !.preview = "error", !.inputShown = TRUE,
                                             !.isGenerating = FALSE],
                           !.dialog = Append(@, Message("system", GenerateFailed(ConfigurationMissing), Null))]
            ELSE [g EXCEPT !.promptLog = pl,
                           !.app = [@ EXCEPT !.isGenerating = TRUE],
                           !.jobs = Append(@, Job(theme, title, made.prompt, fromSend, g.app.apiKey)),
                           !.started = Append(@, <<theme, title>>)]

\* what stays within the bounds of the model
Fits(g) ==
    /\ Len(g.dialog) <= MaxDialog
    /\ Len(g.jobs) <= MaxInFlight

\* the constructor and init(): the hint when no key is stored, the welcome
\* message, the picker.  The input area is taken to start hidden.
AppInit ==
    /\ cm = NewConversationManager
    /\ now = 0
    /\ last = Call("new", Null, NewConversationManager, NoOutcome)
    /\ \E key \in {Null, K1} :
          /\ app = [NoApp EXCEPT !.selectorShown = TRUE, !.apiKey = key]
          /\ dialog = IF key = Null
                      THEN <<Message("system", ApiKeyHint, Null), Message("system", Welcome, Null)>>
                      ELSE <<Message("system", Welcome, Null)>>
    /\ igmThemes = NewVocabularyGeneratorThemes
    /\ hasGlobalBC \in BOOLEAN
    /\ jobs = <<>>
    /\ promptLog = <<>>
    /\ genLog = NoPair
    /\ sendLog = NoSend
    /\ poll = NoPoll

\* the fetch of the loadThemes that the constructor started answers
LoadThemes ==
    /\ last.op # "loadThemes"
    /\ \E answer \in {WithThemes, Thrown, NoMember} :
          \E r \in {loadThemes(answer)} :
             /\ igmThemes' = r.themes
             /\ last' = Call("loadThemes", answer, NewConversationManager, [NoOutcome EXCEPT !.error = r.error])
    /\ UNCHANGED <<cm, now, app, dialog, hasGlobalBC, jobs, promptLog, genLog,
                   sendLog, poll>>

\* the custom card of the picker: ThemeSelectorComponent.handleCustomTheme calls
\* VocabularyApp.startCustomConversation, which names businessController bare
StartCustomConversation ==
    /\ app.selectorShown
    /\ IF hasGlobalBC
       THEN \E r \in {startConversation(cm, now)} :
               /\ Len(dialog) < MaxDialog
               /\ cm' = r.cm
               /\ dialog' = Append(dialog, r.ret.message)
               /\ app' = [app EXCEPT !.selectorShown = FALSE, !.inputShown = TRUE]
       ELSE /\ app' = [app EXCEPT !.selectorShown = FALSE]
            /\ UNCHANGED <<cm, dialog>>
    /\ UNCHANGED <<now, last, igmThemes, hasGlobalBC, jobs, promptLog, genLog, sendLog, poll>>

\* VocabularyApp.startWithTheme(theme, title)
startWithTheme(g, themes, theme, title) ==
    generateImage([g EXCEPT !.app = [@ EXCEPT !.selectorShown = FALSE,
                                              !.currentTheme = theme,
                                              !.currentTitle = title],
                            !.dialog = @ \o <<Message("user", PickedBoth \o theme \o title, Null),
                                              Message("system", PickedGenerating, Null)>>],
                  themes, theme, title, FALSE)

\* the start button of the picker with a theme and a title selected
StartWithTheme ==
    /\ app.selectorShown
    /\ \E theme \in {ChaoShi}, title \in {ZouJinChaoShi} :
       \E g \in {startWithTheme(Page(app, dialog, jobs, <<>>), igmThemes, theme, title)} :
          /\ Fits(g)
          /\ app' = g.app
          /\ dialog' = g.dialog
          /\ jobs' = g.jobs
          /\ promptLog' = g.promptLog
          /\ genLog' = Pair("picker", theme, title)
          /\ UNCHANGED <<cm, now, last, igmThemes, hasGlobalBC, sendLog, poll>>

\* VocabularyApp.startWithCustom(theme, title)
startWithCustom(g, themes, theme, title) ==
    LET th == IF theme = Null THEN Custom ELSE theme
        g1 == [g EXCEPT !.app = [@ EXCEPT !.selectorShown = FALSE,
                                          !.currentTheme = th,
                                          !.currentTitle = title],
                        !.dialog = Append(@, Message("user", PickedTheme \o th, Null))]
    IN IF title = Null
       THEN [g1 EXCEPT !.dialog = Append(@, Message("system", AskTitleOfPicker, Null)),
                       !.app = [@ EXCEPT !.inputShown = TRUE]]
       ELSE generateImage([g1 EXCEPT !.dialog = Append(@, Message("system", CustomGenerating, Null))],
                          themes, th, title, FALSE)

\* the start button of the picker with a theme and no title selected (the
\* custom-title button was chosen and nothing typed, or no title list came)
StartWithCustom ==
    /\ app.selectorShown
    /\ \E theme \in {ChaoShi}, title \in {Null} :
       \E g \in {startWithCustom(Page(app, dialog, jobs, promptLog), igmThemes, theme, title)} :
          /\ Fits(g)
          /\ app' = g.app
          /\ dialog' = g.dialog
          /\ jobs' = g.jobs
          /\ promptLog' = g.promptLog
          /\ sendLog' = [sendLog EXCEPT !.pending = g.app.currentTheme]
          /\ UNCHANGED <<cm, now, last, igmThemes, hasGlobalBC, genLog, poll>>

\* VocabularyApp.handleUserInput(input), given what conversationManager.handleUserInput gave
appHandleUserInput(g, themes, ret) ==
    IF ret.error # "none"
    THEN [g EXCEPT !.dialog = Append(@, Message("system", HandleFailed(ret.error), Null))]
    ELSE LET g1 == [g EXCEPT !.dialog = Append(@, ret.message)]
         IN IF ret.state = "GENERATING" /\ ret.prompt # Null /\ ret.theme # Null /\ ret.title # Null
            THEN generateImage([g1 EXCEPT !.app = [@ EXCEPT !.currentTheme = ret.theme,
                                                            !.currentTitle = ret.title,
                                                            !.inputShown = FALSE]],
                               themes, ret.theme, ret.title, TRUE)
            ELSE g1

\* String.prototype.trim on a text whose white space is the token " "
RECURSIVE trim(_)
trim(s) ==
    IF s # <<>> /\ s[1] = " " THEN trim(Tail(s))
    ELSE IF s # <<>> /\ s[Len(s)] = " " THEN trim(SubSeq(s, 1, Len(s) - 1))
    ELSE s

\* a handleSend that does not look at its processing flag
handleSendPasses_NoFlag(isProcessing, input) == input # <<>>

\* the two early returns of InputComponent.handleSend: whether the trimmed
\* input goes on to the callback
handleSendPasses(isProcessing, input) == ~isProcessing /\ input # <<>>

\* the send button: InputComponent.handleSend with what the box holds
\* (nothing, white space, a text with white space around it), up to the point
\* where the callback has settled or waits for a job
Send ==
    /\ app.inputShown
    /\ \E input \in {trim(value) : value \in {<<>>, <<" ", " ">>, <<" ">> \o ChaoShi \o <<" ">>}} :
          /\ handleSendPasses(app.isProcessing, input)
          /\ \E r \in {handleUserInput(cm, input, now, now)} :
             \E g \in {appHandleUserInput(Page([app EXCEPT !.isProcessing = TRUE], dialog, jobs,
                                               IF r.prompts = <<>> THEN promptLog ELSE r.prompts),
                                          igmThemes, r.ret)} :
                /\ Len(r.cm.messages) <= MaxMessages
                /\ Fits(g)
                /\ cm' = r.cm
                /\ app' = [g.app EXCEPT !.isProcessing = (g.started # <<>>)]
                /\ dialog' = g.dialog
                /\ jobs' = g.jobs
                /\ promptLog' = g.promptLog
                /\ genLog' = IF r.ret.error = "none" /\ r.ret.state = "GENERATING"
                             THEN Pair("typed", r.ret.theme, r.ret.title)
                             ELSE genLog
                /\ sendLog' = [pending |-> Null, input |-> input, afterPicker |-> sendLog.pending,
                               error |-> r.ret.error, started |-> g.started]
                /\ UNCHANGED <<now, last, igmThemes, hasGlobalBC, poll>>

\* onProgress of a job in flight: ImageViewerComponent.showProgress
JobProgress ==
    \E j \in 1..Len(jobs) :
       /\ app' = [app EXCEPT !.preview = "progress"]
       /\ UNCHANGED <<cm, now, last, dialog, igmThemes, hasGlobalBC, jobs, promptLog,
                      genLog, sendLog, poll>>

\* a job in flight gives its image: the rest of the try block and the finally
\* of VocabularyApp.generateImage, then the rest of handleSend if it waited
JobSucceeds ==
    \E j \in 1..Len(jobs) :
       /\ Len(dialog) < MaxDialog
       /\ jobs' = RemoveAt(jobs, j)
       /\ app' = [app EXCEPT !.preview = "image", !.isGenerating = FALSE,
                             !.isProcessing = IF jobs[j].fromSend THEN FALSE ELSE @]
       /\ dialog' = Append(dialog, Message("system", GenerateSucceeded, Null))
       /\ UNCHANGED <<cm, now, last, igmThemes, hasGlobalBC, promptLog, genLog, sendLog, poll>>

\* a job in flight fails: the catch and the finally of VocabularyApp.generateImage
JobFails ==
    \E j \in 1..Len(jobs) :
       /\ Len(dialog) < MaxDialog
       /\ jobs' = RemoveAt(jobs, j)
       /\ app' = [app EXCEPT !.preview = "error", !.inputShown = TRUE, !.isGenerating = FALSE,
                             !.isProcessing = IF jobs[j].fromSend THEN FALSE ELSE @]
       /\ dialog' = Append(dialog, Message("system", GenerateFailed(RemoteFailure), Null))
       /\ UNCHANGED <<cm, now, last, igmThemes, hasGlobalBC, promptLog, genLog, sendLog, poll>>

\* the regenerate button of the preview section
Regenerate ==
    /\ app.preview # "hidden"
    /\ \E g \in {IF app.currentTheme = Null \/ app.currentTitle = Null
                 THEN Page(app, dialog, jobs, promptLog)
                 ELSE generateImage(Page([app EXCEPT !.preview = "hidden"], dialog, jobs, promptLog),
                                    igmThemes, app.currentTheme, app.currentTitle, FALSE)} :
          /\ Fits(g)
          /\ app' = g.app
          /\ dialog' = g.dialog
          /\ jobs' = g.jobs
          /\ UNCHANGED <<cm, now, last, igmThemes, hasGlobalBC, promptLog, genLog, sendLog, poll>>

\* VocabularyApp.startNewCreation(): what it makes of the page (the reset of
\* the ConversationManager is in the action); the jobs in flight are not touched
startNewCreation(g) ==
    [g EXCEPT !.app = [@ EXCEPT !.currentTheme = Null, !.currentTitle = Null,
                                !.isGenerating = FALSE, !.preview = "hidden",
                                !.selectorShown = TRUE],
              !.dialog = <<Message("system", Welcome, Null)>>,
              !.promptLog = <<>>]

\* the new-creation button of the preview section
StartNewCreation ==
    /\ app.preview # "hidden"
    /\ \E g \in {startNewCreation(Page(app, dialog, jobs, promptLog))} :
          /\ app' = g.app
          /\ dialog' = g.dialog
          /\ promptLog' = g.promptLog
    /\ cm' = reset(cm)
    /\ genLog' = NoPair
    /\ sendLog' = NoSend
    /\ UNCHANGED <<now, last, igmThemes, hasGlobalBC, jobs, poll>>

\* the settings dialog saves an API key
SaveSettings ==
    /\ app' = [app EXCEPT !.apiKey = K1]
    /\ UNCHANGED <<cm, now, last, dialog, igmThemes, hasGlobalBC, jobs, promptLog,
                   genLog, sendLog, poll>>

AppNext ==
    \/ LoadThemes
    \/ StartCustomConversation
    \/ StartWithTheme
    \/ StartWithCustom
    \/ Send
    \/ JobProgress
    \/ JobSucceeds
    \/ JobFails
    \/ Regenerate
    \/ StartNewCreation
    \/ SaveSettings

AppSpec == AppInit /\ [][AppNext]_vars

(***************************************************************************)
(* PromptSpec: one PromptGenerator, called with any theme and title, before *)
(* or after the fetch of its VocabularyGenerator has answered.  promptLog    *)
(* holds the latest call: its arguments, what getThemeByName,                *)
(* generateVocabulary and formatVocabularies gave inside it, and the prompt. *)
(***************************************************************************)
Yuan == <<"yuan">>                              \* equals the first catalog name, part of two others
GongYuan == <<"gong", "yuan">>                  \* a catalog name that contains an earlier one
DongWuYuan == <<"dong", "wu", "yuan">>          \* the zoo
Wu == <<"wu">>                                  \* part of one catalog name
HaiYang == <<"hai", "yang">>                    \* no catalog name matches it
ThemeNames == {ChaoShi, Yuan, GongYuan, DongWuYuan, Wu, HaiYang, DollarAmp}
Titles ==
    {ZouJinChaoShi, DollarAmp, <<"$", "$">>, <<"$", "QUOTE">>, <<"a", "$", "b">>, PhCharacters}

PromptCall(themes, theme, title) ==
    [by |-> "PromptGenerator", theme |-> theme, title |-> title, themes |-> themes,
     found |-> getThemeByName(themes, theme),
     vocabularies |-> generateVocabulary(themes, theme),
     formatted |-> formatVocabularies(generateVocabulary(themes, theme)),
     prompt |-> generatePrompt(themes, theme, title)]

PromptInit ==
    /\ cm = NewConversationManager
    /\ now = 0
    /\ last = Call("new", Null, NewConversationManager, NoOutcome)
    /\ app = NoApp
    /\ dialog = <<>>
    /\ igmThemes = NewVocabularyGeneratorThemes
    /\ hasGlobalBC = FALSE
    /\ jobs = <<>>
    /\ promptLog = <<>>
    /\ genLog = NoPair
    /\ sendLog = NoSend
    /\ poll = NoPoll

\* PromptGenerator.generatePrompt(theme, title)
GeneratePrompt ==
    \E theme \in ThemeNames, title \in Titles :
       /\ promptLog' = <<PromptCall(igmThemes, theme, title)>>
       /\ UNCHANGED <<cm, now, last, app, dialog, igmThemes, hasGlobalBC, jobs, genLog,
                      sendLog, poll>>

PromptNext ==
    \/ LoadThemes
    \/ GeneratePrompt

PromptSpec == PromptInit /\ [][PromptNext]_vars

(***************************************************************************)
(* PollSpec: one run against the remote job API, either a whole             *)
(* APIManager.generateImage or a KieAIClient.pollUntilComplete called on    *)
(* its own.  The run stops at each of its awaits: the createTask request,   *)
(* a queryTask request, the wait between two polls.  onProgress is a        *)
(* callback that returns normally.                                          *)
(***************************************************************************)
NonTerminal == {"waiting", "processing", "unknown"}
U1 == "https://x/y.png"
U2 == "https://x/z.png"
Timeout == "timeout"                    \* the message of the error thrown after the loop
TaskFailed == "task failed"             \* the message used when the remote gives no failMsg
MissingResult == "no image URL"
TypeError == "TypeError"
QueryError == "queryTask error"         \* what queryTask throws: transport failure or a non-200 envelope
CreateError == "createTask error"       \* what createTask throws

Answers ==
    {Answer("error", "error", "", FALSE, <<>>)}
    \cup {Answer("ok", st, "", FALSE, <<>>) : st \in NonTerminal}
    \cup {Answer("ok", "fail", m, FALSE, <<>>) : m \in {"", "m"}}
    \cup {Answer("ok", "success", "", TRUE, u) : u \in {<<>>, <<U1, U2>>}}
    \cup {Answer("ok", "success", "", FALSE, <<>>)}

\* the run ends by an error thrown to the caller
Throw(p, error) == [p EXCEPT !.pc = "done", !.result = Result(error, "", NoAnswer)]

\* pollUntilComplete returns the envelope: alone, that is the result of the
\* run; in APIManager.generateImage resultJson is parsed and the first URL taken
Return(p, a) ==
    IF p.via = "client"
    THEN [p EXCEPT !.pc = "done", !.result = Result("none", "", a)]
    ELSE IF ~a.listed THEN Throw(p, TypeError)
         ELSE IF a.urls = <<>> THEN Throw(p, MissingResult)
         ELSE [p EXCEPT !.pc = "done", !.result = Result("none", a.urls[1], NoAnswer)]

\* a loop that goes round once more than it is allowed to
loopCondition_OneMore(p) == p.attempts <= p.maxAttempts

\* the condition of the while loop
loopCondition(p) == p.attempts < p.maxAttempts

\* the head of the while loop: the next queryTask request goes out, or the
\* loop is over and the timeout error is thrown
loopHead(p) ==
    IF loopCondition(p)
    THEN [p EXCEPT !.pc = "query", !.polls = @ + 1, !.carried = p.bearer]
    ELSE Throw(p, Timeout)

\* a catch block that swallows the error on the last attempt too
catch_Swallows(p, error) == loopHead([p EXCEPT !.attempts = @ + 1])

\* the catch block with the error caught
catch(p, error) ==
    IF p.attempts = p.maxAttempts - 1
    THEN Throw(p, error)
    ELSE loopHead([p EXCEPT !.attempts = @ + 1])

\* an attempts value that counts from zero
progressAttempts_FromZero(p) == p.attempts

\* an attempts value that does not move
progressAttempts_Stuck(p) == 1

\* the attempts value handed to onProgress
progressAttempts(p) == p.attempts + 1

\* a try block that looks at the state first and calls onProgress only when
\* the loop is to go on
try_ActsBeforeProgress(p, a) ==
    IF a.kind = "error"
    THEN catch(p, QueryError)
    ELSE IF a.state = "success" THEN Return(p, a)
         ELSE IF a.state = "fail"
              THEN catch(p, IF a.failMsg = "" THEN TaskFailed ELSE a.failMsg)
              ELSE [p EXCEPT !.progress = Append(@, progressAttempts(p)),
                             !.pc = "sleep", !.waits = @ + 1]

\* the try block from the answer of queryTask on
try(p, a) ==
    IF a.kind = "error"
    THEN catch(p, QueryError)
    ELSE LET p1 == [p EXCEPT !.progress = Append(@, progressAttempts(p))]
         IN IF a.state = "success" THEN Return(p1, a)
            ELSE IF a.state = "fail"
                 THEN catch(p1, IF a.failMsg = "" THEN TaskFailed ELSE a.failMsg)
                 ELSE [p1 EXCEPT !.pc = "sleep", !.waits = @ + 1]

PollInit ==
    /\ cm = NewConversationManager
    /\ now = 0
    /\ last = Call("new", Null, NewConversationManager, NoOutcome)
    /\ app = NoApp
    /\ dialog = <<>>
    /\ igmThemes = NewVocabularyGeneratorThemes
    /\ hasGlobalBC = FALSE
    /\ jobs = <<>>
    /\ promptLog = <<>>
    /\ genLog = NoPair
    /\ sendLog = NoSend
    /\ \E key \in {Null, K1} : poll = [NoPoll EXCEPT !.stored = key, !.client = key]

\* a generateImage that sends createTask without looking for a stored key
apiGenerateImage_NoCheck(p) ==
    [p EXCEPT !.via = "APIManager", !.pc = "create", !.creates = @ + 1,
              !.maxAttempts = MaxAttempts, !.carried = p.client,
              !.payload = payload(p.settings)]

\* APIManager.generateImage(prompt, options, onProgress) up to its first await:
\* isConfigured() reads the stored key; with a key the client is there (or is
\* made from the stored key) and the createTask request goes out with the
\* headers of that client and the options { ...this.settings, ...{} }
apiGenerateImage(p) ==
    IF p.stored = Null
    THEN Throw([p EXCEPT !.via = "APIManager"], ConfigurationMissing)
    ELSE LET client == IF p.client = Null THEN p.stored ELSE p.client
         IN [p EXCEPT !.via = "APIManager", !.pc = "create", !.creates = @ + 1,
                      !.maxAttempts = MaxAttempts, !.client = client, !.carried = client,
                      !.payload = payload(p.settings)]

\* APIManager.generateImage up to the createTask request; it polls with the
\* maxAttempts it has written in (30, here MaxAttempts)
GenerateImage ==
    /\ poll.pc = "idle"
    /\ poll' = apiGenerateImage(poll)
    /\ UNCHANGED <<cm, now, last, app, dialog, igmThemes, hasGlobalBC, jobs, promptLog,
                   genLog, sendLog>>

\* a generateImage that goes on to poll when createTask has thrown
createTaskReturns_PollsAnyway(p, ok) == loopHead([p EXCEPT !.entered = ok, !.bearer = p.client])

\* APIManager.generateImage from the answer of createTask on: pollUntilComplete
\* of the client that this.client names by then is called when createTask
\* returned its envelope (ok); what createTask throws goes to the caller
createTaskReturns(p, ok) ==
    IF ok THEN loopHead([p EXCEPT !.entered = TRUE, !.bearer = p.client])
          ELSE Throw(p, CreateError)

\* the createTask request comes back: with a 200 envelope, and polling
\* starts, or with an error, which goes to the caller
CreateTaskAnswers ==
    /\ poll.pc = "create"
    /\ \E ok \in BOOLEAN : poll' = createTaskReturns(poll, ok)
    /\ UNCHANGED <<cm, now, last, app, dialog, igmThemes, hasGlobalBC, jobs, promptLog,
                   genLog, sendLog>>

\* KieAIClient.pollUntilComplete(taskId, maxAttempts, interval, onProgress)
\* called on its own
PollUntilComplete ==
    /\ poll.pc = "idle"
    /\ poll.stored # Null
    /\ \E maxAttempts \in 0..MaxAttempts :
          poll' = loopHead([poll EXCEPT !.via = "client", !.entered = TRUE,
                                        !.bearer = poll.client,
                                        !.maxAttempts = maxAttempts])
    /\ UNCHANGED <<cm, now, last, app, dialog, igmThemes, hasGlobalBC, jobs, promptLog,
                   genLog, sendLog>>

\* the queryTask request in flight comes back
QueryTaskAnswers ==
    /\ poll.pc = "query"
    /\ \E a \in Answers :
          poll' = try([poll EXCEPT !.trace = Append(@, a.state), !.answer = a], a)
    /\ UNCHANGED <<cm, now, last, app, dialog, igmThemes, hasGlobalBC, jobs, promptLog,
                   genLog, sendLog>>

\* the wait between two polls is over
IntervalElapses ==
    /\ poll.pc = "sleep"
    /\ poll' = loopHead([poll EXCEPT !.attempts = @ + 1])
    /\ UNCHANGED <<cm, now, last, app, dialog, igmThemes, hasGlobalBC, jobs, promptLog,
                   genLog, sendLog>>

\* APIManager.saveApiKey(apiKey) while a run is under way: the key is stored
\* and this.client becomes a new client made with it
SaveApiKey ==
    /\ poll.pc \in {"create", "query", "sleep"}
    /\ \E apiKey \in {K1, K2} \ {poll.stored} :
          poll' = [poll EXCEPT !.stored = apiKey, !.client = apiKey]
    /\ UNCHANGED <<cm, now, last, app, dialog, igmThemes, hasGlobalBC, jobs, promptLog,
                   genLog, sendLog>>

PollNext ==
    \/ GenerateImage
    \/ SaveApiKey
    \/ CreateTaskAnswers
    \/ PollUntilComplete
    \/ QueryTaskAnswers
    \/ IntervalElapses

PollSpec == PollInit /\ [][PollNext]_vars

(***************************************************************************)
(* The settings on their way to createTask (SettingsSpec): the settings    *)
(* form is saved, the page is loaded again, generateImage submits.         *)
(***************************************************************************)
\* the save button of the settings form, with what validateSettings lets
\* through: saveSettings writes the key and
\* app_settings to localStorage, then the onSave callback, handleSettingsSave,
\* calls saveApiKey and updateSettings of the APIManager
HandleSaveSettings ==
    /\ \E apiKey \in {K1, K2}, resolution \in {"2K", "4K"}, format \in {"png", "jpg"} :
       \E form \in {[resolution |-> resolution, format |-> format]} :
          poll' = [poll EXCEPT !.stored = apiKey, !.client = apiKey, !.saved = form,
                               !.settings = updateSettings(@, form)]
    /\ UNCHANGED <<cm, now, last, app, dialog, igmThemes, hasGlobalBC, jobs, promptLog,
                   genLog, sendLog>>

\* the page is loaded again: localStorage stays, api.js makes a new APIManager,
\* whose constructor sets the settings it has written in and whose init makes
\* a client from the stored key
Reload ==
    /\ poll' = [NoPoll EXCEPT !.stored = poll.stored, !.client = poll.stored,
                              !.saved = poll.saved]
    /\ UNCHANGED <<cm, now, last, app, dialog, igmThemes, hasGlobalBC, jobs, promptLog,
                   genLog, sendLog>>

SettingsNext ==
    \/ GenerateImage
    \/ CreateTaskAnswers
    \/ HandleSaveSettings
    \/ Reload

SettingsSpec == PollInit /\ [][SettingsNext]_vars

(***************************************************************************)
(* KieAIClient: the envelope check of createTask and queryTask and          *)
(* getErrorMessage (EnvelopeSpec).  An envelope is the parsed JSON body:    *)
(* its code is a number or is missing, its msg a string, the empty string,  *)
(* or missing.                                                              *)
(***************************************************************************)
Code(n) == [given |-> TRUE, v |-> n]
NoCode == [given |-> FALSE, v |-> 0]
Envelope(code, msg) == [code |-> code, msg |-> msg]

\* the keys of errorMap and the text each maps to
errorMapKeys == {400, 401, 402, 404, 422, 429, 500}
errorMap(n) == <<"errorMap", n>>
UnknownError == <<"unknown error">>
Msg1 == <<"remote", "says">>
Msg2 == <<"try", "later">>

\* a getErrorMessage that prefers what the remote says
getErrorMessage_RemoteFirst(code, message) ==
    IF message \notin {Null, <<>>} THEN message
    ELSE IF code.given /\ code.v \in errorMapKeys THEN errorMap(code.v)
    ELSE UnknownError

\* KieAIClient.getErrorMessage: errorMap[code] || message || the unknown-error
\* text; || passes over a missing message and over the empty string
getErrorMessage(code, message) ==
    IF code.given /\ code.v \in errorMapKeys THEN errorMap(code.v)
    ELSE IF message \notin {Null, <<>>} THEN message
    ELSE UnknownError

\* what a request gives its caller: the envelope, or an Error with a message
Returned(data) == [threw |-> FALSE, message |-> Null, data |-> data]
Raised(message) == [threw |-> TRUE, message |-> message, data |-> Envelope(NoCode, Null)]

\* createTask from the parsed body on: data.code !== 200 throws
createTask(data) ==
    IF data.code # Code(200) THEN Raised(getErrorMessage(data.code, data.msg))
    ELSE Returned(data)

\* queryTask from the parsed body on: the same check
queryTask(data) ==
    IF data.code # Code(200) THEN Raised(getErrorMessage(data.code, data.msg))
    ELSE Returned(data)

\* the codes a remote answers with; its msg is missing, empty or a text
Codes == {NoCode} \cup {Code(n) : n \in errorMapKeys \cup {0, 200, 201, 403, 501, 503}}

\* the body of a createTask request arrives
CreateTaskResponds ==
    /\ \E code \in Codes, msg \in {Null, <<>>, Msg1, Msg2} :
          last' = Call("createTask", Envelope(code, msg), NewConversationManager,
                       createTask(Envelope(code, msg)))
    /\ UNCHANGED <<cm, now, app, dialog, igmThemes, hasGlobalBC, jobs, promptLog,
                   genLog, sendLog, poll>>

\* the body of a queryTask request arrives
QueryTaskResponds ==
    /\ \E code \in Codes, msg \in {Null, <<>>, Msg1, Msg2} :
          last' = Call("queryTask", Envelope(code, msg), NewConversationManager,
                       queryTask(Envelope(code, msg)))
    /\ UNCHANGED <<cm, now, app, dialog, igmThemes, hasGlobalBC, jobs, promptLog,
                   genLog, sendLog, poll>>

EnvelopeNext ==
    \/ CreateTaskResponds
    \/ QueryTaskResponds

EnvelopeSpec == PromptInit /\ [][EnvelopeNext]_vars

(***************************************************************************)
(* Properties of the ConversationManager, checked under Spec.  In every     *)
(* state cm is the object as the call recorded in `last` left it.           *)
(***************************************************************************)
LastMessage == cm.messages[Len(cm.messages)]
IsInput == last.op = "handleUserInput"

\* C1: handleUserInput called in IDLE or GENERATING throws the invalid-state
\* error and leaves currentTheme and currentTitle as they were before the call.
C1_RejectedInputKeepsPair ==
    (IsInput /\ last.pre.state \in {"IDLE", "GENERATING"}) =>
        /\ last.ret.error = InvalidState
        /\ cm.currentTheme = last.pre.currentTheme
        /\ cm.currentTitle = last.pre.currentTitle

\* an input was rejected in GENERATING, where a theme and a title are recorded
C1_Witness ==
    /\ IsInput
    /\ last.pre.state = "GENERATING"
    /\ last.ret.error = InvalidState
    /\ cm.currentTheme # Null
    /\ cm.currentTitle # Null

\* C2: in ASKING_TITLE, handleUserInput(s) records s as the title, moves to
\* GENERATING, appends an AI message whose prompt contains the recorded theme
\* and s, and returns state GENERATING with that prompt, the theme and the title.
C2_TitleInputYieldsPromptWithPair ==
    (IsInput /\ last.pre.state = "ASKING_TITLE") =>
        /\ last.ret.error = "none"
        /\ cm.currentTitle = last.input
        /\ cm.state = "GENERATING"
        /\ LastMessage.type = "ai"
        /\ Includes(LastMessage.prompt, last.pre.currentTheme)
        /\ Includes(LastMessage.prompt, last.input)
        /\ last.ret.state = "GENERATING"
        /\ last.ret.prompt = LastMessage.prompt
        /\ last.ret.theme = last.pre.currentTheme
        /\ last.ret.title = last.input

\* C3 as stated: in ASKING_THEME, handleUserInput(s) records s as the theme,
\* leaves the title null, moves to ASKING_TITLE, appends the user message and
\* one system message, and returns that system message.
C3_ThemeInputReturnsStoredMessage ==
    (IsInput /\ last.pre.state = "ASKING_THEME") =>
        /\ last.ret.error = "none"
        /\ cm.currentTheme = last.input
        /\ cm.currentTitle = Null
        /\ cm.state = "ASKING_TITLE"
        /\ Len(cm.messages) = Len(last.pre.messages) + 2
        /\ SubSeq(cm.messages, 1, Len(last.pre.messages)) = last.pre.messages
        /\ cm.messages[Len(cm.messages) - 1].type = "user"
        /\ cm.messages[Len(cm.messages) - 1].content = last.input
        /\ LastMessage.type = "system"
        /\ LastMessage.content = AskTitle
        /\ last.ret.message = LastMessage

\* C3 amended: as above, but the returned message is the object that was handed
\* to addMessage: it has the tag and the text of the stored system message and
\* no id, while the stored copy has one.
C3_ThemeInputReturnsUnstampedMessage ==
    (IsInput /\ last.pre.state = "ASKING_THEME") =>
        /\ last.ret.error = "none"
        /\ cm.currentTheme = last.input
        /\ cm.currentTitle = Null
        /\ cm.state = "ASKING_TITLE"
        /\ Len(cm.messages) = Len(last.pre.messages) + 2
        /\ SubSeq(cm.messages, 1, Len(last.pre.messages)) = last.pre.messages
        /\ cm.messages[Len(cm.messages) - 1].type = "user"
        /\ cm.messages[Len(cm.messages) - 1].content = last.input
        /\ LastMessage.type = "system"
        /\ LastMessage.content = AskTitle
        /\ LastMessage.id # NoId
        /\ last.ret.message = [LastMessage EXCEPT !.id = NoId]
        /\ last.ret.nextStep = "title"

\* a theme was typed in ASKING_THEME
C3_Witness ==
    /\ IsInput
    /\ last.pre.state = "ASKING_THEME"
    /\ last.input = ChaoShi
    /\ cm.state = "ASKING_TITLE"

\* C4: startConversation moves to ASKING_THEME, nulls theme and title, drops
\* all earlier messages and leaves exactly one message, tagged system, which
\* is the message it returns.
C4_StartLeavesOneSystemMessage ==
    last.op = "startConversation" =>
        /\ cm.state = "ASKING_THEME"
        /\ cm.currentTheme = Null
        /\ cm.currentTitle = Null
        /\ Len(cm.messages) = 1
        /\ cm.messages[1].type = "system"
        /\ cm.messages[1].content = AskTheme
        /\ last.ret.error = "none"
        /\ last.ret.message = cm.messages[1]
        /\ last.ret.state = "ASKING_THEME"

\* startConversation was called on a conversation that had a theme and messages
C4_Witness ==
    /\ last.op = "startConversation"
    /\ last.pre.currentTheme # Null
    /\ Len(last.pre.messages) >= 3
    /\ Len(cm.messages) = 1

\* C5: reset in any state gives IDLE with null theme, null title and an empty
\* history, raises nothing, and a second reset changes nothing.
C5_ResetClearsAndIsIdempotent ==
    last.op = "reset" =>
        /\ cm.state = "IDLE"
        /\ cm.currentTheme = Null
        /\ cm.currentTitle = Null
        /\ cm.messages = <<>>
        /\ last.ret.error = "none"
        /\ reset(cm) = cm

\* reset was called in GENERATING, with a pair and a history to discard
C5_Witness ==
    /\ last.op = "reset"
    /\ last.pre.state = "GENERATING"
    /\ last.pre.currentTitle # Null
    /\ Len(last.pre.messages) = MaxMessages
    /\ cm.messages = <<>>

\* C6 as stated: a step that takes the machine out of GENERATING is a call of reset.
C6_OnlyResetLeavesGenerating ==
    [][(cm.state = "GENERATING" /\ cm'.state # "GENERATING") =>
            (last'.op = "reset" /\ last'.pre = cm)]_vars

\* C6 amended: a step that takes the machine out of GENERATING is a call of
\* reset or of startConversation; an input, and the settling of an image job,
\* leave it in GENERATING.
C6_OnlyResetOrStartLeavesGenerating ==
    [][(cm.state = "GENERATING" /\ cm'.state # "GENERATING") =>
            (last'.op \in {"reset", "startConversation"} /\ last'.pre = cm)]_vars

\* startConversation was called in GENERATING and the machine asks for a theme again
C6_Witness ==
    /\ last.op = "startConversation"
    /\ last.pre.state = "GENERATING"
    /\ cm.state = "ASKING_THEME"

(***************************************************************************)
(* Properties of the page, checked under AppSpec.                           *)
(***************************************************************************)

\* C7: for the (theme, title) pair a handler completed, whether typed or
\* picked, generatePrompt was invoked exactly once.
C7_OnePromptPerCompletedPair ==
    genLog.path \in {"typed", "picker"} => Len(promptLog) = 1

\* C8: the input sent next after the picker gave a theme and no title is not
\* rejected, and it starts exactly one generation, for that theme and that input.
C8_InputAfterPickedThemeStartsGeneration ==
    sendLog.afterPicker # Null =>
        /\ sendLog.error = "none"
        /\ sendLog.started = << <<sendLog.afterPicker, sendLog.input>> >>

(***************************************************************************)
(* Properties of a run against the remote, checked under PollSpec.          *)
(***************************************************************************)
AllNonTerminal(tr) == \A i \in 1..Len(tr) : tr[i] \in NonTerminal
UpTo(n) == [i \in 1..n |-> i]

\* C9: when the first k polls of a run came back non-terminal (k < maxAttempts)
\* and poll k+1 came back success with a URL list that is not empty, onProgress
\* was called k+1 times, with attempts 1, 2, .. k+1 in that order, and the run
\* returned: APIManager.generateImage the first URL, pollUntilComplete on its
\* own the envelope of that poll.
C9_ProgressCountsUpToSuccess ==
    (/\ poll.pc = "done"
     /\ Len(poll.trace) > 0
     /\ AllNonTerminal(SubSeq(poll.trace, 1, Len(poll.trace) - 1))
     /\ poll.trace[Len(poll.trace)] = "success"
     /\ poll.answer.listed
     /\ poll.answer.urls # <<>>) =>
        /\ Len(poll.trace) <= poll.maxAttempts
        /\ poll.polls = Len(poll.trace)
        /\ poll.progress = UpTo(Len(poll.trace))
        /\ poll.result.error = "none"
        /\ poll.via = "APIManager" => poll.result.url = poll.answer.urls[1]
        /\ poll.via = "client" => poll.result.envelope = poll.answer

\* APIManager.generateImage saw two polls in processing and then success, and
\* returned the first URL
C9_Witness ==
    /\ poll.pc = "done"
    /\ poll.via = "APIManager"
    /\ poll.trace = <<"processing", "processing", "success">>
    /\ poll.progress = <<1, 2, 3>>
    /\ poll.result.url = U1

\* C10: a run never sends more than maxAttempts polls; when every poll came
\* back non-terminal, the maxAttempts-th answer is followed by no further poll,
\* and the run ends with the timeout error after exactly maxAttempts polls.
C10_TimeoutAfterMaxAttemptsPolls ==
    /\ poll.polls <= poll.maxAttempts
    /\ (poll.entered /\ AllNonTerminal(poll.trace)) =>
          /\ Len(poll.trace) = poll.maxAttempts => poll.pc \in {"sleep", "done"}
          /\ poll.pc = "done" =>
                /\ poll.result.error = Timeout
                /\ poll.polls = poll.maxAttempts
                /\ Len(poll.trace) = poll.maxAttempts

\* a run of maxAttempts = MaxAttempts whose polls all came back in processing
\* ended with the timeout error
C10_Witness ==
    /\ poll.pc = "done"
    /\ poll.maxAttempts = MaxAttempts
    /\ Len(poll.trace) = MaxAttempts
    /\ \A i \in 1..MaxAttempts : poll.trace[i] = "processing"
    /\ poll.result.error = Timeout

\* the message of the error that a poll answered with fail raises
FailureOf(a) == IF a.failMsg = "" THEN TaskFailed ELSE a.failMsg

\* C11: a poll that comes back with state fail ends the run with an error that
\* carries the reason the remote gave, or the generic message when it gave
\* none, whatever the number of the attempt.
C11_FailEndsRunWithReason ==
    (Len(poll.trace) > 0 /\ poll.trace[Len(poll.trace)] = "fail") =>
        /\ poll.pc = "done"
        /\ poll.result.error = FailureOf(poll.answer)

\* C12: once a poll has come back with success or fail, no further poll goes
\* out: the polls sent are no more than the polls up to that answer.
C12_TerminalAnswerEndsPolling ==
    \A i \in 1..Len(poll.trace) :
        poll.trace[i] \in {"success", "fail"} => poll.polls <= i

\* C13: an error raised by a poll request on an attempt that is not the last
\* does not reach the caller: it uses up one attempt and the next poll goes
\* out; on attempt number maxAttempts it reaches the caller as that error, not
\* as the timeout error.
C13_RequestErrorReachesCallerOnLastAttemptOnly ==
    (Len(poll.trace) > 0 /\ poll.trace[Len(poll.trace)] = "error") =>
        IF Len(poll.trace) = poll.maxAttempts
        THEN /\ poll.pc = "done"
             /\ poll.result.error = QueryError
        ELSE /\ poll.pc = "query"
             /\ poll.attempts = Len(poll.trace)
             /\ poll.polls = Len(poll.trace) + 1
             /\ poll.result = NoResult

\* the first poll request of a run failed and polling went on; the request of
\* the last attempt failed too and its error ended the run
C13_Witness ==
    /\ poll.pc = "done"
    /\ poll.maxAttempts = MaxAttempts
    /\ Len(poll.trace) = MaxAttempts
    /\ poll.trace[1] = "error"
    /\ poll.trace[MaxAttempts] = "error"
    /\ poll.result.error = QueryError

\* the attempts whose poll came back with an envelope
Answered(tr) == {i \in 1..Len(tr) : tr[i] # "error"}

\* C14 as stated: when no poll is in flight, onProgress has been called as many
\* times as polls were sent.
C14_ProgressOncePerPoll ==
    poll.pc # "query" => Len(poll.progress) = poll.polls

\* C14 amended: onProgress has been called exactly once for every poll that
\* came back with an envelope, the first included and the one that ends the
\* run included, with the number of that attempt, in order; a poll whose
\* request raised an error has no call.
C14_ProgressOncePerAnsweredPoll ==
    /\ Len(poll.progress) = Cardinality(Answered(poll.trace))
    /\ \A j \in 1..Len(poll.progress) : poll.progress[j] \in Answered(poll.trace)
    /\ \A j, k \in 1..Len(poll.progress) : j < k => poll.progress[j] < poll.progress[k]

\* the first poll request failed, the second came back in processing, the
\* third with success: onProgress was called for attempts 2 and 3
C14_Witness ==
    /\ poll.pc = "done"
    /\ poll.trace = <<"error", "processing", "success">>
    /\ poll.progress = <<2, 3>>
    /\ poll.polls = 3

\* C15: within a run the attempt counter never goes down and never goes above
\* maxAttempts; every attempts value handed to onProgress lies in
\* 1..maxAttempts and is greater than the one handed over before it.
C15_AttemptsBoundedAndIncreasing ==
    /\ [](/\ poll.attempts >= 0
          /\ poll.attempts <= poll.maxAttempts
          /\ \A j \in 1..Len(poll.progress) : poll.progress[j] \in 1..poll.maxAttempts
          /\ \A j \in 1..(Len(poll.progress) - 1) : poll.progress[j] < poll.progress[j + 1])
    /\ [][poll'.attempts >= poll.attempts]_vars

\* a run used up all its attempts: the counter stands at maxAttempts and
\* onProgress was handed every number from 1 to maxAttempts
C15_Witness ==
    /\ poll.maxAttempts = MaxAttempts
    /\ poll.attempts = poll.maxAttempts
    /\ poll.progress = UpTo(MaxAttempts)

\* C16: a call of APIManager.generateImage that has a key sends exactly one
\* createTask; a poll goes out only after createTask has returned a 200
\* envelope; when createTask fails no poll goes out and its error reaches the
\* caller.
C16_OneCreateTaskThenPolls ==
    poll.via = "APIManager" =>
        /\ poll.creates <= 1
        /\ (poll.stored # Null) => poll.creates = 1
        /\ poll.polls > 0 => (poll.creates = 1 /\ poll.entered)
        /\ (poll.pc # "create" /\ poll.creates = 1 /\ ~poll.entered) =>
              /\ poll.pc = "done"
              /\ poll.result.error = CreateError
              /\ poll.polls = 0
              /\ poll.progress = <<>>

\* createTask failed: the run is over with its error and no poll was sent
C16_Witness ==
    /\ poll.via = "APIManager"
    /\ poll.pc = "done"
    /\ poll.creates = 1
    /\ poll.polls = 0
    /\ poll.result.error = CreateError

\* C17: between two polls of a run that follow each other exactly one interval
\* wait elapses, whatever the earlier poll gave: when poll number n is out,
\* n - 1 waits have been made.
C17_OneWaitBetweenPolls ==
    poll.pc = "query" => poll.waits = poll.polls - 1

\* C18: when the remote reports success and the URL list of the result is
\* empty or absent, APIManager.generateImage fails with the missing-result
\* error and returns no URL.
C18_NoUrlIsMissingResult ==
    (/\ poll.via = "APIManager"
     /\ Len(poll.trace) > 0
     /\ poll.trace[Len(poll.trace)] = "success"
     /\ (~poll.answer.listed \/ poll.answer.urls = <<>>)) =>
        /\ poll.pc = "done"
        /\ poll.result.error = MissingResult
        /\ poll.result.url = ""

\* C19: with no key stored, APIManager.generateImage fails with the
\* configuration-missing error and sends neither a createTask nor a poll.
C19_NoKeyFailsBeforeAnyRequest ==
    (poll.via = "APIManager" /\ poll.stored = Null) =>
        /\ poll.pc = "done"
        /\ poll.result.error = ConfigurationMissing
        /\ poll.result.url = ""
        /\ poll.creates = 0
        /\ poll.polls = 0

\* generateImage was called with no key stored and has failed
C19_Witness ==
    /\ poll.via = "APIManager"
    /\ poll.stored = Null
    /\ poll.pc = "done"
    /\ poll.result.error = ConfigurationMissing

\* C20: at most one generation job is in flight on the page at any time.
C20_AtMostOneJobInFlight ==
    Len(jobs) <= 1

\* C21: a job result that arrives after startNewCreation, while nothing has been
\* started in the fresh session (the picker is displayed, no pair is recorded),
\* is dropped: the preview, the dialog and isGenerating stay as they are.
C21_LateResultIsDropped ==
    [][(Len(jobs') < Len(jobs) /\ app.selectorShown /\ app.currentTheme = Null) =>
            /\ app'.preview = app.preview
            /\ dialog' = dialog
            /\ app'.isGenerating = app.isGenerating]_vars

\* the last message of a dialog reports a failed generation
EndsWithFailure(d) ==
    /\ Len(d) > 0
    /\ d[Len(d)].type = "system"
    /\ d[Len(d)].content[1] = "GENERATE_FAILED"

\* from the page (a, d, js) these user actions start a generation job: save an
\* API key in the settings if none is stored, press the new-creation button,
\* pick a theme and a title and press start
RetryStarts(a, d, js) ==
    LET keyed == IF a.apiKey = Null THEN [a EXCEPT !.apiKey = K1] ELSE a
        fresh == startNewCreation(Page(keyed, d, js, <<>>))
        g == startWithTheme(fresh, igmThemes, ChaoShi, ZouJinChaoShi)
    IN /\ a.preview # "hidden"
       /\ fresh.app.selectorShown
       /\ g.started = << <<ChaoShi, ZouJinChaoShi>> >>
       /\ Len(g.jobs) = Len(js) + 1

C23_RequestCarriesStoredCredential ==
    [][(poll'.creates > poll.creates \/ poll'.polls > poll.polls) =>
            poll'.carried = poll'.stored]_vars

\* C24: no two messages of the conversation history have the same id.
C24_MessageIdsAreUnique ==
    \A i, j \in 1..Len(cm.messages) :
        i # j => cm.messages[i].id # cm.messages[j].id

(***************************************************************************)
(* Properties of the PromptGenerator, checked under PromptSpec.             *)
(***************************************************************************)
Called == promptLog # <<>>
TheCall == promptLog[1]

\* C25: for every theme and title, the prompt holds the title verbatim at the
\* site of the title placeholder, between the template texts around it.
C25_TitleVerbatimAtItsSite ==
    Called => Includes(TheCall.prompt, <<"T1">> \o TheCall.title \o <<"T2">>)

\* the characters list of the prompt is the one of the theme that the catalog
\* resource (or, when its load failed, the built-in set) has under that name
FromCatalog(prompt, theme) ==
    \E themes \in {Loaded(Catalog), Loaded(getDefaultThemes)} :
       Includes(prompt,
                <<"T6">> \o formatList(getThemeByName(themes, theme).vocabularies.characters)
                \o <<"T7">>)

\* C26: every prompt generated on the page for the catalog theme "chao shi" is
\* built from that theme's vocabulary entries, whoever calls generatePrompt
\* and whenever the catalog load completes.
C26_CatalogThemeUsesCatalogVocabulary ==
    \A i \in 1..Len(promptLog) :
        promptLog[i].theme = ChaoShi => FromCatalog(promptLog[i].prompt, ChaoShi)

\* the name of theme t contains the query or is contained in it
Matches(t, q) == Includes(t.name, q) \/ Includes(q, t.name)

\* C27: over a loaded catalog, getThemeByName returns a theme of that exact
\* name when there is one, also when an earlier entry matches by substring;
\* otherwise the first entry in insertion order whose name contains the query
\* or is contained in it; otherwise none.
C27_ExactThenFirstSubstring ==
    (Called /\ TheCall.themes.loaded) =>
        LET q == TheCall.theme
            es == TheCall.themes.entries
            r == TheCall.found
        IN IF \E i \in 1..Len(es) : es[i].name = q
           THEN r.name = q /\ \E i \in 1..Len(es) : es[i] = r
           ELSE IF \E i \in 1..Len(es) : Matches(es[i], q)
                THEN \E i \in 1..Len(es) :
                        /\ r = es[i]
                        /\ Matches(es[i], q)
                        /\ \A k \in 1..(i - 1) : ~Matches(es[k], q)
                ELSE r = NullTheme

\* the park was looked up in the catalog, where the yard comes first and
\* matches by substring
C27_Witness ==
    /\ Called
    /\ TheCall.themes = Loaded(Catalog)
    /\ TheCall.theme = GongYuan
    /\ Matches(Catalog[1], GongYuan)
    /\ TheCall.found = Catalog[2]

\* no theme is found for the query: nothing is loaded, or no name matches
Unmatched(themes, q) ==
    \/ ~themes.loaded
    \/ \A i \in 1..Len(themes.entries) :
          themes.entries[i].name # q /\ ~Matches(themes.entries[i], q)

GenericLists ==
    <<"T6", "ren", " ", "Ren", ",", " ", "hai zi", " ", "HaiZi",
      "T7", "wu pin", " ", "WuPin", ",", " ", "wan ju", " ", "WanJu",
      "T8", "she shi", " ", "SheShi", ",", " ", "huan jing", " ", "HuanJing", "T9">>

\* C28: for a theme that no catalog name matches, generatePrompt takes the
\* generic vocabulary of four categories with one or two entries each and
\* returns a non-empty prompt that lists it.
C28_UnmatchedThemeGetsGenericLists ==
    (Called /\ Unmatched(TheCall.themes, TheCall.theme)) =>
        /\ DOMAIN TheCall.vocabularies = {"characters", "items", "facilities", "environment"}
        /\ \A c \in DOMAIN TheCall.vocabularies : Len(TheCall.vocabularies[c]) \in {1, 2}
        /\ TheCall.prompt # <<>>
        /\ Includes(TheCall.prompt, GenericLists)

\* the catalog was loaded and a theme that none of its names matches was asked for
C28_Witness ==
    /\ Called
    /\ TheCall.themes = Loaded(Catalog)
    /\ TheCall.theme = HaiYang
    /\ TheCall.found = NullTheme
    /\ Includes(TheCall.prompt, GenericLists)

\* the entries of a category, none when the category is absent
Listed(v, c) == IF c \in DOMAIN v THEN v[c] ELSE <<>>

\* out is the entries of list in order, each as phonetic, blank, label, with a
\* comma and a blank between two entries
Renders(out, list) ==
    /\ Len(out) = IF Len(list) = 0 THEN 0 ELSE 5 * Len(list) - 2
    /\ \A i \in 1..Len(list) :
          /\ out[5 * i - 4] = list[i].pinyin[1]
          /\ out[5 * i - 3] = " "
          /\ out[5 * i - 2] = list[i].chinese[1]
    /\ \A i \in 1..(Len(list) - 1) :
          /\ out[5 * i - 1] = ","
          /\ out[5 * i] = " "

\* C29: formatVocabularies renders the characters from "characters", the items
\* from "items" or, when that is absent, from "animals", the environment from
\* "facilities" followed by "environment"; an absent category gives an empty list.
C29_ListsRenderTheirCategories ==
    Called =>
        LET v == TheCall.vocabularies
            f == TheCall.formatted
        IN /\ Renders(f.characters, Listed(v, "characters"))
           /\ Renders(f.items, IF "items" \in DOMAIN v THEN v.items ELSE Listed(v, "animals"))
           /\ Renders(f.environment, Listed(v, "facilities") \o Listed(v, "environment"))

\* the zoo was formatted: its items come from "animals", it has no facilities
C29_Witness ==
    /\ Called
    /\ TheCall.found = Catalog[4]
    /\ "items" \notin DOMAIN TheCall.vocabularies
    /\ "facilities" \notin DOMAIN TheCall.vocabularies
    /\ TheCall.formatted.items =
           <<"shi zi", " ", "ShiZi", ",", " ", "da xiang", " ", "DaXiang">>
    /\ TheCall.formatted.environment = <<"shu", " ", "Shu">>

\* the template with each placeholder site holding its value as it is
Filled(theme, title, f) ==
    <<"T0">> \o theme \o <<"T1">> \o title \o <<"T2">> \o theme \o <<"T3">> \o theme
    \o <<"T4">> \o theme \o <<"T5">> \o theme \o <<"T6">> \o f.characters
    \o <<"T7">> \o f.items \o <<"T8">> \o f.environment \o <<"T9">>

\* C30: the prompt is the template with every placeholder site holding its
\* value and nothing else changed, so no placeholder of the template is left.
C30_EverySiteFilledNothingElseChanged ==
    Called => TheCall.prompt = Filled(TheCall.theme, TheCall.title, TheCall.formatted)


(***************************************************************************)
(* C31: when the fetch of the catalog resource is rejected or its body     *)
(* cannot be parsed, the themes become the built-in default themes, no     *)
(* error leaves loadThemes, and a later lookup works on the default        *)
(* themes.                                                                 *)
(***************************************************************************)
C31_LoadFailsSoft ==
    (last.op = "loadThemes" /\ last.input = Thrown) =>
        /\ igmThemes = Loaded(getDefaultThemes)
        /\ last.ret.error = "none"
        /\ (Called /\ TheCall.themes.loaded) =>
               /\ TheCall.themes = Loaded(getDefaultThemes)
               /\ TheCall.theme = ChaoShi => TheCall.found = getDefaultThemes[1]
               /\ TheCall.theme = GongYuan => TheCall.found = NullTheme

C31_Witness ==
    /\ last.op = "loadThemes"
    /\ last.input = Thrown
    /\ Called
    /\ TheCall.theme = ChaoShi
    /\ TheCall.found = getDefaultThemes[1]


(***************************************************************************)
(* C32: an envelope with code 200 is returned; any other code raises an    *)
(* error whose message is the errorMap text for a mapped code, and for an  *)
(* unmapped code what the remote said, or the unknown-error text when the  *)
(* remote said nothing (no msg, or an empty one).                          *)
(***************************************************************************)
C32_EnvelopeCodeDecides ==
    last.op \in {"createTask", "queryTask"} =>
        /\ last.input.code = Code(200) =>
              /\ ~last.ret.threw
              /\ last.ret.data = last.input
        /\ last.input.code # Code(200) =>
              /\ last.ret.threw
              /\ (last.input.code.given /\ last.input.code.v \in errorMapKeys) =>
                     last.ret.message = errorMap(last.input.code.v)
              /\ ~(last.input.code.given /\ last.input.code.v \in errorMapKeys) =>
                     /\ last.input.msg \in {Msg1, Msg2} => last.ret.message = last.input.msg
                     /\ last.input.msg \in {Null, <<>>} =>
                            last.ret.message = UnknownError

C32_Witness ==
    /\ last.op = "queryTask"
    /\ last.input = Envelope(Code(401), Msg1)
    /\ last.ret.threw
    /\ last.ret.message = errorMap(401)


(***************************************************************************)
(* C33: a createTask request carries the resolution, format and aspect     *)
(* ratio of the settings as they are when it is sent: 2K, png and 3:4      *)
(* when nothing was saved, and the saved resolution and format once a      *)
(* settings form was saved.                                                *)
(***************************************************************************)
C33_SubmissionCarriesSettings ==
    [][poll'.creates = poll.creates + 1 =>
          /\ poll'.payload.aspect_ratio = "3:4"
          /\ poll.saved = NoSaved =>
                /\ poll'.payload.resolution = "2K"
                /\ poll'.payload.output_format = "png"
          /\ poll.saved # NoSaved =>
                /\ poll'.payload.resolution = poll.saved.resolution
                /\ poll'.payload.output_format = poll.saved.format]_vars


(***************************************************************************)
(* C34: the state of the ConversationManager is one of IDLE, ASKING_THEME, *)
(* ASKING_TITLE, GENERATING and fixes which fields are set: in IDLE and    *)
(* ASKING_THEME currentTheme and currentTitle are null, in ASKING_TITLE    *)
(* currentTheme is set and currentTitle is null, in GENERATING both are    *)
(* set.                                                                    *)
(***************************************************************************)
C34_StateFixesTheFields ==
    /\ cm.state \in {"IDLE", "ASKING_THEME", "ASKING_TITLE", "GENERATING"}
    /\ cm.state \in {"IDLE", "ASKING_THEME"} =>
          cm.currentTheme = Null /\ cm.currentTitle = Null
    /\ cm.state = "ASKING_TITLE" =>
          cm.currentTheme # Null /\ cm.currentTitle = Null
    /\ cm.state = "GENERATING" =>
          cm.currentTheme # Null /\ cm.currentTitle # Null

C34_Witness ==
    /\ cm.state = "GENERATING"
    /\ cm.currentTheme = ChaoShi
    /\ cm.currentTitle = DollarAmp
    /\ last.op = "handleUserInput"
    /\ last.pre.state = "ASKING_TITLE"
    /\ last.pre.currentTitle = Null


(***************************************************************************)
(* C35: handleUserInput adds the user message before it looks at the       *)
(* state: an input rejected with the invalid-state error in IDLE or        *)
(* GENERATING leaves the history longer by exactly one user message, with  *)
(* the input as its content, and leaves state, currentTheme and            *)
(* currentTitle as they were.                                              *)
(***************************************************************************)
C35_RejectedInputIsStillRecorded ==
    (IsInput /\ last.ret.error = InvalidState) =>
        /\ last.pre.state \in {"IDLE", "GENERATING"}
        /\ Len(cm.messages) = Len(last.pre.messages) + 1
        /\ SubSeq(cm.messages, 1, Len(last.pre.messages)) = last.pre.messages
        /\ LastMessage.type = "user"
        /\ LastMessage.content = last.input
        /\ cm.state = last.pre.state
        /\ cm.currentTheme = last.pre.currentTheme
        /\ cm.currentTitle = last.pre.currentTitle

\* an input was rejected in GENERATING on top of a history
C35_Witness ==
    /\ IsInput
    /\ last.ret.error = InvalidState
    /\ last.pre.state = "GENERATING"
    /\ Len(last.pre.messages) >= 4
    /\ Len(cm.messages) = Len(last.pre.messages) + 1
    /\ LastMessage.type = "user"


(***************************************************************************)
(* C36: on the typed path the prompt attached to the AI message that the   *)
(* dialog shows is the prompt submitted by the generation that follows for *)
(* the same theme and title.                                               *)
(***************************************************************************)
C36_ShownPromptIsSubmittedPrompt ==
    \A j \in 1..Len(jobs) :
       jobs[j].fromSend =>
          \E i \in 1..Len(dialog) : dialog[i].type = "ai" /\ dialog[i].prompt = jobs[j].prompt


(***************************************************************************)
(* C37: isGenerating is true exactly while a job that                      *)
(* VocabularyApp.generateImage started has not settled: it is never false  *)
(* with a job in flight and never true without one.                        *)
(***************************************************************************)
C37_FlagTracksTheJob ==
    app.isGenerating <=> (jobs # <<>>)


(***************************************************************************)
(* C38: InputComponent.handleSend forwards one input at a time.  While the *)
(* callback of an earlier send has not settled (the generation it awaits   *)
(* included) no input is forwarded; an input that is forwarded is          *)
(* non-empty and has no white space around it; the processing flag is set  *)
(* exactly while a forwarded input is unsettled, so it is cleared when the *)
(* callback settles, by success or by failure.                             *)
(***************************************************************************)
\* a step forwards an input when it gives conversationManager.handleUserInput
\* a user message to add; a send is unsettled while its job is in flight
C38_OneInputAtATime ==
    [][LET Forwarded == /\ Len(cm'.messages) > Len(cm.messages)
                        /\ cm'.messages[Len(cm.messages) + 1].type = "user"
           Unsettled(js) == {j \in 1..Len(js) : js[j].fromSend}
       IN /\ (app.isProcessing \/ Unsettled(jobs) # {}) => ~Forwarded
          /\ Forwarded =>
                LET input == cm'.messages[Len(cm.messages) + 1].content
                IN input # <<>> /\ input[1] # " " /\ input[Len(input)] # " "
          /\ Cardinality(Unsettled(jobs')) <= 1
          /\ app'.isProcessing <=> (Unsettled(jobs') # {})]_vars

\* the input area is displayed again while the callback of a send still waits
\* for its generation: a send pressed now is the one that is ignored
C38_Witness ==
    /\ app.isProcessing
    /\ app.inputShown
    /\ \E j \in 1..Len(jobs) : jobs[j].fromSend
    /\ cm.state = "ASKING_THEME"

(***************************************************************************)
(* C39: choosing the custom card (VocabularyApp.startCustomConversation)   *)
(* starts the typed conversation: after the step the ConversationManager   *)
(* is in ASKING_THEME, its first system message, the question for the      *)
(* theme, has been added to the dialog, and the input area is shown.  The  *)
(* step of the custom card is the one where the picker goes away and,      *)
(* unlike the start buttons of the picker, no theme is recorded on the     *)
(* page.                                                                   *)
(***************************************************************************)
C39_CustomCardStartsConversation ==
    [][(app.selectorShown /\ ~app'.selectorShown /\ app'.currentTheme = Null) =>
          /\ cm'.state = "ASKING_THEME"
          /\ Len(cm'.messages) = 1
          /\ cm'.messages[1].type = "system"
          /\ cm'.messages[1].content = AskTheme
          /\ dialog' = Append(dialog, cm'.messages[1])
          /\ app'.inputShown]_vars

====
